---- MODULE Spec2Model ----
(***************************************************************************)
(* CrossRef MCP server: the CallToolRequestSchema handler and its helpers, *)
(* in the three revisions of index.ts the repository holds:                *)
(*   "index_ts"   src/src/index.ts              (generateBibTeX)           *)
(*   "bibtex_rev" src/unnamed/part_000:1-342    (fetchBibTeX + fallback)   *)
(*   "orcid_rev"  src/unnamed/part_000:343-789  (ORCID-enhanced authors)   *)
(* Texts are TLA+ strings; the text operators work on their characters.    *)
(***************************************************************************)
EXTENDS Integers, Sequences, FiniteSets, TLC

VARIABLES
    rev,         \* the revision of index.ts that serves the call
    tool, args,  \* request.params.name and request.params.arguments
    pc,          \* where the handler is: idle, await_works, await_bibtex,
                 \* await_gen, await_meta, done
    net,         \* the HTTP requests issued so far, in order
    response,    \* what the GET of the record ended in
    data,        \* response.data.message
    exportBody,  \* what the GET of the export ended in
    bibtex,      \* the handler's bibtex
    genLook,     \* the promises of generateBibTeXFromMetadataEnhanced
    metaLook,    \* the promises of the handler's authorsPromises
    genReply,    \* what the ORCID request of each author ended in, per round
    metaReply,
    lastSettled, \* the author whose lookup settled last in the current round
    result       \* what the handler returned or threw

vars == <<rev, tool, args, pc, net, response, data, exportBody, bibtex,
          genLook, metaLook, genReply, metaReply, lastSettled, result>>

(***************************************************************************)
(* Bounds of the model.                                                    *)
(***************************************************************************)
MaxAuthors == 2
MaxRefs == 2

(* new Date().getFullYear() at the time of the call *)
CurrentYear == 2026

(***************************************************************************)
(* Strings as character sequences.                                         *)
(***************************************************************************)
Chars(s) == [i \in 1..Len(s) |-> SubSeq(s, i, i)]

RECURSIVE StrRange(_, _, _)
StrRange(cs, lo, hi) ==
    IF lo > hi THEN ""
    ELSE IF lo = hi THEN cs[lo]
    ELSE LET mid == (lo + hi) \div 2
         IN  StrRange(cs, lo, mid) \o StrRange(cs, mid + 1, hi)

Str(cs) == StrRange(cs, 1, Len(cs))

Min(S) == CHOOSE x \in S : \A y \in S : x <= y
Max(S) == CHOOSE x \in S : \A y \in S : x >= y

CharSet(s) == {SubSeq(s, i, i) : i \in 1..Len(s)}

(* the class [a-zA-Z0-9] *)
AlnumChars == CharSet("abcdefghijklmnopqrstuvwxyzABCDEFGHIJKLMNOPQRSTUVWXYZ0123456789")

(* The texts of this module are ASCII: a TLA+ string holds no other character
   dependably, so Len of a text is its length in the code (UTF-16 units) and a
   text with other characters is outside the model.
   The class \s of a JavaScript pattern, as far as it is ASCII: space, tab,
   line feed, carriage return, form feed and, written out in the last string,
   the vertical tab U+000B.  The other members of \s (U+00A0, U+1680, U+2000
   to U+200A, U+2028, U+2029, U+202F, U+205F, U+3000, U+FEFF) are not ASCII *)
SpaceChars == {" ", "\t", "\n", "\r", "\f", ""}

(* the line terminators that ^ and $ see under the m flag: line feed and
   carriage return; the other two, U+2028 and U+2029, are not ASCII *)
LineTerminators == {"\n", "\r"}

(* cs has the literal lit at position p *)
MatchLit(cs, p, lit) ==
    /\ p >= 1
    /\ p + Len(lit) - 1 <= Len(cs)
    /\ \A i \in 1..Len(lit) : cs[p + i - 1] = lit[i]

(* \s* from p, greedy: the first position at or after p that holds no space *)
SkipSpace(cs, p) ==
    Min({q \in p..(Len(cs) + 1) : q > Len(cs) \/ cs[q] \notin SpaceChars})

(* [^}]* from p, greedy, then }: the position of the first } at or after p, 0 if none *)
FirstClose(cs, p) ==
    LET S == {q \in p..Len(cs) : cs[q] = "}"}
    IN  IF S = {} THEN 0 ELSE Min(S)

CharAt(cs, p) == IF p >= 1 /\ p <= Len(cs) THEN cs[p] ELSE ""

StartsWith(cs, lit) == MatchLit(cs, 1, lit)
EndsWith(cs, lit) == MatchLit(cs, Len(cs) - Len(lit) + 1, lit)

(* String.prototype.replace(literal, '') : the first occurrence only *)
RemoveFirst(cs, lit) ==
    LET S == {q \in 1..Len(cs) : MatchLit(cs, q, lit)}
    IN  IF S = {} THEN cs
        ELSE SubSeq(cs, 1, Min(S) - 1) \o SubSeq(cs, Min(S) + Len(lit), Len(cs))

(* replace(/[^a-zA-Z0-9]/g, '') *)
IsAlnum(c) == c \in AlnumChars
StripNonAlnum(cs) == SelectSeq(cs, IsAlnum)

(* Array.prototype.join *)
RECURSIVE Join(_, _)
Join(strs, sep) ==
    IF strs = <<>> THEN ""
    ELSE IF Len(strs) = 1 THEN strs[1]
    ELSE strs[1] \o sep \o Join(Tail(strs), sep)

(***************************************************************************)
(* JavaScript values.  A raw object is a function from the names of the    *)
(* fields it carries; undefined and '' are both falsy, so a missing string *)
(* field reads as "" wherever the code only tests it or applies ||.        *)
(* null is the empty tuple, a present value v is <<v>>.                    *)
(***************************************************************************)
Null == <<>>
Some(v) == <<v>>

(* obj.k || '' *)
GetStr(obj, k) == IF k \in DOMAIN obj THEN obj[k] ELSE ""

(* obj.k || 0 *)
GetNum(obj, k) == IF k \in DOMAIN obj THEN obj[k] ELSE 0

(* obj.k || null *)
OrNull(obj, k) == IF GetStr(obj, k) # "" THEN Some(obj[k]) ELSE Null

(* obj[k]?.[0] || '' *)
FirstOf(obj, k) ==
    IF k \in DOMAIN obj /\ Len(obj[k]) >= 1 THEN obj[k][1] ELSE ""

(* data[k]?.['date-parts']?.[0]?.[0], 0 when any link is missing *)
DatePartsYear(obj, k) ==
    IF /\ k \in DOMAIN obj
       /\ "date-parts" \in DOMAIN obj[k]
       /\ Len(obj[k]["date-parts"]) >= 1
       /\ Len(obj[k]["date-parts"][1]) >= 1
    THEN obj[k]["date-parts"][1][1]
    ELSE 0

(* String.prototype.split(' ') *)
RECURSIVE SplitSpace(_, _)
SplitSpace(cs, acc) ==
    IF cs = <<>> THEN <<Str(acc)>>
    ELSE IF Head(cs) = " "
         THEN <<Str(acc)>> \o SplitSpace(Tail(cs), <<>>)
         ELSE SplitSpace(Tail(cs), Append(acc, Head(cs)))

(***************************************************************************)
(* Author names.                                                           *)
(***************************************************************************)
formatAuthor(author) ==
    IF GetStr(author, "given") # "" /\ GetStr(author, "family") # ""
    THEN author["given"] \o " " \o author["family"]
    ELSE IF GetStr(author, "family") # "" THEN author["family"]
    ELSE IF GetStr(author, "name") # "" THEN author["name"]
    ELSE "Unknown Author"

(* the author object of the metadata in the revisions without ORCID lookup *)
plainAuthor(author) ==
    [given |-> GetStr(author, "given"),
     family |-> GetStr(author, "family"),
     full_name |-> formatAuthor(author),
     orcid |-> OrNull(author, "ORCID")]

(* the ORCID id as it goes into the request URL *)
cleanORCID(orcid) ==
    Str(RemoveFirst(RemoveFirst(Chars(orcid), Chars("https://orcid.org/")),
                    Chars("http://orcid.org/")))

orcidUrl(orcid) == "https://pub.orcid.org/v3.0/" \o cleanORCID(orcid) \o "/person"

(* fetchORCIDName once the request has an outcome: the full name, "" for null *)
fetchORCIDName(outcome) ==
    IF outcome.kind # "ok" THEN ""
    ELSE LET person == outcome.body IN
         IF /\ "name" \in DOMAIN person
            /\ "given-names" \in DOMAIN person["name"]
            /\ "family-name" \in DOMAIN person["name"]
         THEN person["name"]["given-names"].value \o " "
                  \o person["name"]["family-name"].value
         ELSE ""

(* the lookup condition with the test for a period left out *)
lookupIssuedNoPeriod(author) ==
    LET given == GetStr(author, "given") IN
    /\ GetStr(author, "ORCID") # ""
    /\ given # ""
    /\ Len(given) <= 3

(* the condition under which formatAuthorEnhanced awaits fetchORCIDName *)
lookupIssued(author) ==
    LET given == GetStr(author, "given") IN
    /\ GetStr(author, "ORCID") # ""
    /\ given # ""
    /\ Len(given) <= 3
    /\ "." \in CharSet(given)

(* formatAuthorEnhanced with the final test for "Unknown Author" left out *)
formatAuthorEnhancedNoFallback(author, orcidName) ==
    LET found == lookupIssued(author) /\ orcidName # ""
        nameParts == SplitSpace(Chars(orcidName), <<>>)
    IN  IF found
        THEN [given |-> Join(SubSeq(nameParts, 1, Len(nameParts) - 1), " "),
              family |-> nameParts[Len(nameParts)],
              full_name |-> orcidName,
              orcid |-> OrNull(author, "ORCID"),
              name_source |-> "orcid"]
        ELSE [given |-> GetStr(author, "given"),
              family |-> GetStr(author, "family"),
              full_name |-> formatAuthor(author),
              orcid |-> OrNull(author, "ORCID"),
              name_source |-> "crossref"]

(* formatAuthorEnhanced; orcidName is what fetchORCIDName returned when it
   was awaited ("" for null), and is not read otherwise *)
formatAuthorEnhanced(author, orcidName) ==
    LET given == GetStr(author, "given")
        family == GetStr(author, "family")
        orcid == OrNull(author, "ORCID")
        found == lookupIssued(author) /\ orcidName # ""
        fullName == IF found THEN orcidName ELSE formatAuthor(author)
        nameParts == SplitSpace(Chars(orcidName), <<>>)
    IN  IF found /\ Len(nameParts) >= 2
        THEN [given |-> Join(SubSeq(nameParts, 1, Len(nameParts) - 1), " "),
              family |-> nameParts[Len(nameParts)],
              full_name |-> fullName,
              orcid |-> orcid,
              name_source |-> "orcid"]
        ELSE [given |-> given,
              family |-> family,
              full_name |-> fullName,
              orcid |-> orcid,
              name_source |-> IF fullName = "Unknown Author" THEN "fallback"
                              ELSE IF found THEN "orcid" ELSE "crossref"]

(***************************************************************************)
(* fetchBibTeX: the post-processing of the exported text.                  *)
(***************************************************************************)
(* /^\s*abstract\s*=\s*{[^}]*},?\s*$/m tried at position p: the position
   after the match, 0 when it does not match there *)
LastTerminator(cs, lo, hi) ==
    LET S == {q \in lo..hi : cs[q] \in LineTerminators}
    IN  IF S = {} THEN 0 ELSE Max(S)

abstractMatchEnd(cs, p) ==
    IF ~(p = 1 \/ CharAt(cs, p - 1) \in LineTerminators) THEN 0
    ELSE LET a == SkipSpace(cs, p) IN
         IF ~MatchLit(cs, a, Chars("abstract")) THEN 0
    ELSE LET b == SkipSpace(cs, a + 8) IN
         IF CharAt(cs, b) # "=" THEN 0
    ELSE LET c == SkipSpace(cs, b + 1) IN
         IF CharAt(cs, c) # "{" THEN 0
    ELSE LET d == FirstClose(cs, c + 1) IN
         IF d = 0 THEN 0
    ELSE LET e == IF CharAt(cs, d + 1) = "," THEN d + 2 ELSE d + 1
             f == SkipSpace(cs, e)
         IN  IF f > Len(cs) THEN f
             ELSE LastTerminator(cs, e, f - 1)

(* bibtex.replace(/^\s*abstract\s*=\s*{[^}]*},?\s*$/gm, '') from position p *)
RECURSIVE removeAbstract(_, _)
removeAbstract(cs, p) ==
    LET S == {q \in p..Len(cs) : abstractMatchEnd(cs, q) # 0}
    IN  IF S = {} THEN SubSeq(cs, p, Len(cs))
        ELSE SubSeq(cs, p, Min(S) - 1)
                 \o removeAbstract(cs, abstractMatchEnd(cs, Min(S)))

(* the title pattern (title, \s*, =, \s*, an opening brace, a group of any
   characters but a closing brace, a closing brace) tried at position p:
   <<start of the group, position of the closing brace>>, <<0, 0>> when it
   does not match there *)
titleMatch(cs, p) ==
    IF ~MatchLit(cs, p, Chars("title")) THEN <<0, 0>>
    ELSE LET b == SkipSpace(cs, p + 5) IN
         IF CharAt(cs, b) # "=" THEN <<0, 0>>
    ELSE LET c == SkipSpace(cs, b + 1) IN
         IF CharAt(cs, c) # "{" THEN <<0, 0>>
    ELSE LET d == FirstClose(cs, c + 1) IN
         IF d = 0 THEN <<0, 0>> ELSE <<c + 1, d>>

(* the replacer callback: match is the whole match, title its group *)
titleReplacer(match, title) ==
    IF StartsWith(title, Chars("{")) /\ EndsWith(title, Chars("}"))
    THEN match
    ELSE Chars("title = {{") \o title \o Chars("}}")

(* bibtex.replace(title pattern with the g flag, replacer) from position p *)
RECURSIVE wrapTitle(_, _)
wrapTitle(cs, p) ==
    LET S == {q \in p..Len(cs) : titleMatch(cs, q)[2] # 0}
    IN  IF S = {} THEN SubSeq(cs, p, Len(cs))
        ELSE LET q == Min(S)
                 m == titleMatch(cs, q)
             IN  SubSeq(cs, p, q - 1)
                     \o titleReplacer(SubSeq(cs, q, m[2]), SubSeq(cs, m[1], m[2] - 1))
                     \o wrapTitle(cs, m[2] + 1)

(* the two replacements on a response body that is a string *)
postProcess(text) == Str(wrapTitle(removeAbstract(Chars(text), 1), 1))

(* a catch block that returns the error as text instead of null *)
fetchBibTeXErrorText(outcome) ==
    IF outcome.kind # "ok" THEN "Error: export failed"
    ELSE postProcess(outcome.body)

(* fetchBibTeX once the request has an outcome: the text, "" for null.  A
   body that is no string makes .replace throw, which the catch turns to null *)
fetchBibTeX(outcome) ==
    IF outcome.kind # "ok" THEN ""
    ELSE postProcess(outcome.body)

(***************************************************************************)
(* The local BibTeX formatter.                                             *)
(***************************************************************************)
(* generateBibTeX of src/src/index.ts *)
entryTypeShort(d) ==
    IF GetStr(d, "type") = "book" THEN "book"
    ELSE IF GetStr(d, "type") = "book-chapter" THEN "incollection"
    ELSE IF GetStr(d, "type") = "proceedings-article" THEN "inproceedings"
    ELSE "article"

(* generateBibTeXFromMetadata and generateBibTeXFromMetadataEnhanced *)
entryTypeOf(d) ==
    IF GetStr(d, "type") = "book" THEN "book"
    ELSE IF GetStr(d, "type") = "book-chapter" THEN "incollection"
    ELSE IF GetStr(d, "type") = "proceedings-article" THEN "inproceedings"
    ELSE IF GetStr(d, "type") = "report" THEN "techreport"
    ELSE IF GetStr(d, "type") \in {"thesis", "dissertation"} THEN "phdthesis"
    ELSE "article"

(* data.author || [] *)
authorsOf(d) == IF "author" \in DOMAIN d THEN d["author"] ELSE <<>>

(* print year || online year, 0 when neither is there *)
recordYear(d) ==
    IF DatePartsYear(d, "published-print") # 0
    THEN DatePartsYear(d, "published-print")
    ELSE DatePartsYear(d, "published-online")

(* ... || new Date().getFullYear() *)
bibYear(d) == IF recordYear(d) # 0 THEN recordYear(d) ELSE CurrentYear

(* the key with the replace left out *)
citationKeyUnstripped(d) ==
    LET authorName == IF Len(authorsOf(d)) >= 1
                         /\ GetStr(authorsOf(d)[1], "family") # ""
                      THEN authorsOf(d)[1]["family"]
                      ELSE "Unknown"
    IN  authorName \o ToString(bibYear(d))

citationKey(d) ==
    LET authorName == IF Len(authorsOf(d)) >= 1
                         /\ GetStr(authorsOf(d)[1], "family") # ""
                      THEN authorsOf(d)[1]["family"]
                      ELSE "Unknown"
    IN  Str(StripNonAlnum(Chars(authorName \o ToString(bibYear(d)))))

(* the title without its default *)
titleOfNoDefault(d) == FirstOf(d, "title")

(* data.title?.[0] || 'Untitled' *)
titleOf(d) ==
    IF FirstOf(d, "title") # "" THEN FirstOf(d, "title") ELSE "Untitled"

formattedTitle(d) == "{{" \o titleOf(d) \o "}}"

(* data.author?.map(formatAuthor).join(' and ') || 'Unknown' *)
plainAuthorNames(d) ==
    LET names == [i \in 1..Len(authorsOf(d)) |-> formatAuthor(authorsOf(d)[i])]
    IN  IF Join(names, " and ") # "" THEN Join(names, " and ") ELSE "Unknown"

(* the field line of an optional string field, as a list of zero or one line *)
optField(d, k, name) ==
    IF GetStr(d, k) # ""
    THEN <<"  " \o name \o " = {" \o d[k] \o "}">>
    ELSE <<>>

(* the venue line of the array-building formatters *)
venueField(d, entryType) ==
    IF FirstOf(d, "container-title") = "" THEN <<>>
    ELSE IF entryType = "article"
         THEN <<"  journal = {" \o FirstOf(d, "container-title") \o "}">>
    ELSE IF entryType \in {"incollection", "inproceedings"}
         THEN <<"  booktitle = {" \o FirstOf(d, "container-title") \o "}">>
    ELSE <<>>

(* the venue line of generateBibTeX *)
venueFieldShort(d, entryType) ==
    IF FirstOf(d, "container-title") = "" THEN <<>>
    ELSE IF entryType = "article"
         THEN <<"  journal = {" \o FirstOf(d, "container-title") \o "}">>
    ELSE <<"  booktitle = {" \o FirstOf(d, "container-title") \o "}">>

(* publisher, volume, number, pages, doi, url: the same in every formatter *)
tailFields(d) ==
    optField(d, "publisher", "publisher")
        \o optField(d, "volume", "volume")
        \o optField(d, "issue", "number")
        \o optField(d, "page", "pages")
        \o optField(d, "DOI", "doi")
        \o optField(d, "URL", "url")

(* the entry built from the fields array: `@type{key,\n` fields `\n}` *)
entryText(entryType, key, fields) ==
    "@" \o entryType \o "{" \o key \o ",\n" \o Join(fields, ",\n") \o "\n}"

(* const data = metadata.message || metadata: generateBibTeX formats the
   message object of what it is given when there is one (an object in every
   record of this module), and what it is given otherwise *)
messageOr(metadata) ==
    IF "message" \in DOMAIN metadata THEN metadata["message"] ELSE metadata

(* generateBibTeX appends `line,\n` per field, then drops the last two
   characters and closes the entry *)
generateBibTeX(metadata) ==
    LET d == messageOr(metadata)
        entryType == entryTypeShort(d)
        fields == <<"  title = " \o formattedTitle(d),
                    "  author = {" \o plainAuthorNames(d) \o "}",
                    "  year = {" \o ToString(bibYear(d)) \o "}">>
                      \o venueFieldShort(d, entryType)
                      \o tailFields(d)
        lines == [i \in 1..Len(fields) |-> fields[i] \o ",\n"]
        text == Chars("@" \o entryType \o "{" \o citationKey(d) \o ",\n"
                        \o Join(lines, ""))
    IN  Str(SubSeq(text, 1, Len(text) - 2)) \o "\n}"

generateBibTeXFromMetadata(d) ==
    LET entryType == entryTypeOf(d)
    IN  entryText(entryType, citationKey(d),
                  <<"  title = " \o formattedTitle(d),
                    "  author = {" \o plainAuthorNames(d) \o "}",
                    "  year = {" \o ToString(bibYear(d)) \o "}">>
                      \o venueField(d, entryType)
                      \o tailFields(d))

(* enhancedAuthors.map(a => a.full_name).join(' and '), 'Unknown' without authors *)
enhancedAuthorNames(enhancedAuthors) ==
    IF Len(enhancedAuthors) = 0 THEN "Unknown"
    ELSE Join([i \in 1..Len(enhancedAuthors) |-> enhancedAuthors[i].full_name],
              " and ")

(* generateBibTeXFromMetadataEnhanced once its Promise.all has resolved to
   enhancedAuthors *)
generateBibTeXFromMetadataEnhanced(d, enhancedAuthors) ==
    LET entryType == entryTypeOf(d)
    IN  entryText(entryType, citationKey(d),
                  <<"  title = " \o formattedTitle(d),
                    "  author = {" \o enhancedAuthorNames(enhancedAuthors) \o "}",
                    "  year = {" \o ToString(bibYear(d)) \o "}">>
                      \o venueField(d, entryType)
                      \o tailFields(d))

(***************************************************************************)
(* The responses of the tool handler.                                      *)
(***************************************************************************)
(* the metadata object as JSON.stringify sees it: doi is data.DOI, and a key
   whose value is undefined is not serialised *)
metadataOf(d, authors, bib) ==
    (IF "DOI" \in DOMAIN d THEN "doi" :> d["DOI"] ELSE <<>>) @@
    [title |-> titleOf(d),
     authors |-> authors,
     journal |-> [full_name |-> FirstOf(d, "container-title"),
                  abbreviated |-> IF FirstOf(d, "short-container-title") # ""
                                  THEN FirstOf(d, "short-container-title")
                                  ELSE FirstOf(d, "container-title"),
                  issn |-> IF "ISSN" \in DOMAIN d THEN d["ISSN"] ELSE <<>>],
     year |-> IF recordYear(d) # 0 THEN Some(recordYear(d)) ELSE Null,
     volume |-> OrNull(d, "volume"),
     issue |-> OrNull(d, "issue"),
     pages |-> OrNull(d, "page"),
     publisher |-> OrNull(d, "publisher"),
     abstract |-> OrNull(d, "abstract"),
     url |-> OrNull(d, "URL"),
     type |-> IF GetStr(d, "type") # "" THEN d["type"] ELSE "article",
     published_date |-> IF "published-print" \in DOMAIN d
                        THEN Some(d["published-print"])
                        ELSE IF "published-online" \in DOMAIN d
                        THEN Some(d["published-online"])
                        ELSE Null,
     references_count |-> GetNum(d, "references-count"),
     is_referenced_by_count |-> GetNum(d, "is-referenced-by-count"),
     bibtex |-> bib]

(* the metadata object of src/src/index.ts, which also carries the record *)
metadataWithRaw(d, authors, bib) == metadataOf(d, authors, bib) @@ ("raw_data" :> d)

(* ref['article-title'] || ref['volume-title'] || null *)
refTitle(ref) ==
    IF GetStr(ref, "article-title") # "" THEN Some(ref["article-title"])
    ELSE OrNull(ref, "volume-title")

referenceStub(ref) ==
    [key |-> OrNull(ref, "key"),
     doi |-> OrNull(ref, "DOI"),
     title |-> refTitle(ref),
     author |-> OrNull(ref, "author"),
     year |-> OrNull(ref, "year"),
     journal |-> OrNull(ref, "journal-title"),
     volume |-> OrNull(ref, "volume"),
     issue |-> OrNull(ref, "issue"),
     pages |-> OrNull(ref, "first-page"),
     raw |-> ref]

(* an empty reference list taken for a missing one *)
referencesOfNonEmpty(doi, d) ==
    IF "reference" \in DOMAIN d /\ Len(d["reference"]) > 0
    THEN LET references == [i \in 1..Len(d["reference"]) |->
                                referenceStub(d["reference"][i])]
         IN  [doi |-> doi,
              references_count |-> Len(references),
              references |-> references]
    ELSE [doi |-> doi,
          references_count |-> 0,
          references |-> <<>>,
          message |-> "No references available for this DOI"]

(* the object fetch_references serialises *)
referencesOf(doi, d) ==
    IF "reference" \in DOMAIN d
    THEN LET references == [i \in 1..Len(d["reference"]) |->
                                referenceStub(d["reference"][i])]
         IN  [doi |-> doi,
              references_count |-> Len(references),
              references |-> references]
    ELSE [doi |-> doi,
          references_count |-> 0,
          references |-> <<>>,
          message |-> "No references available for this DOI"]

(***************************************************************************)
(* The inputs: requests, registry records, export bodies, ORCID answers.   *)
(***************************************************************************)
With(obj, k, v) == (k :> v) @@ obj
Without(obj, k) == [x \in DOMAIN obj \ {k} |-> obj[x]]

RECURSIVE SeqsUpTo(_, _)
SeqsUpTo(S, n) ==
    IF n = 0 THEN {<<>>}
    ELSE LET shorter == SeqsUpTo(S, n - 1)
         IN  shorter \cup {Append(q, x) : q \in {r \in shorter : Len(r) = n - 1}, x \in S}

Revs == {"index_ts", "bibtex_rev", "orcid_rev"}
Tools == {"fetch_doi_metadata", "fetch_references", "fetch_citations"}

(* request.params.arguments: undefined, without doi, with an empty doi, with a doi *)
Undefined == <<>>
ArgSets == {Undefined, [style |-> "apa"], [doi |-> ""], [doi |-> "10.1/x"]}

aLeCun == [given |-> "Y.", family |-> "LeCun",
           ORCID |-> "http://orcid.org/0000-0002-1234-5678"]
(* a name without a letter or digit: all of it falls to [^a-zA-Z0-9], as a
   name in another script would *)
aNonAlnum == [given |-> "#.", family |-> "#*", ORCID |-> "https://orcid.org/0000-0003-0000-0004"]
aLee == [given |-> "Ann", family |-> "Lee", ORCID |-> "0000-0001-0000-0002"]
aONeil == [given |-> "J.", family |-> "O'Neil Jr."]
aGroup == [name |-> "ACME Group"]
aAnon == [sequence |-> "first"]
aThree == [given |-> "Y.A", family |-> "Bengio", ORCID |-> "0000-0001-0000-0003"]
aFour == [given |-> "J.K.", family |-> "Rowling", ORCID |-> "0000-0001-0000-0004"]
aSolo == [family |-> "Solo", ORCID |-> "0000-0001-0000-0005"]
aGivenOnly == [given |-> "Y.", ORCID |-> "0000-0001-0000-0006"]

FirstAuthors == {aLeCun, aNonAlnum, aONeil, aGroup, aAnon}
AuthorPool == {aLeCun, aLee}

WorkTypes == {"journal-article", "book", "book-chapter", "proceedings-article",
              "report", "thesis", "dissertation", "dataset"}

DateOf(y) == "date-parts" :> <<<<y>>>>

BaseWork ==
    ("DOI" :> "10.1/x") @@ ("title" :> <<"Deep Learning">>)
        @@ ("author" :> <<aLeCun>>) @@ ("type" :> "journal-article")
        @@ ("container-title" :> <<"Nature">>)
        @@ ("published-print" :> DateOf(2015))

FullWork ==
    BaseWork @@ ("short-container-title" :> <<"Nat.">>) @@ ("volume" :> "521")
        @@ ("issue" :> "7553") @@ ("page" :> "436-444")
        @@ ("publisher" :> "Springer") @@ ("URL" :> "http://dx.doi.org/10.1/x")
        @@ ("published-online" :> DateOf(2014))
        @@ ("ISSN" :> <<"0028-0836">>) @@ ("abstract" :> "<jats:p>We review.</jats:p>")
        @@ ("references-count" :> 103) @@ ("is-referenced-by-count" :> 5000)

BareWork == "DOI" :> "10.1/x"

(* a record that itself carries a field called message, which generateBibTeX
   of src/src/index.ts takes for the record *)
MessageWorks == {With(BaseWork, "message", [author |-> <<aLee>>, type |-> "book"])}

(* records with next to nothing on them, without and with an author *)
SparseWorks == {BareWork, With(BareWork, "author", <<aGroup>>)}

TypeVenueWorks ==
    LET typed == {With(FullWork, "type", t) : t \in WorkTypes}
                     \cup {Without(FullWork, "type")}
    IN  typed \cup {Without(w, "container-title") : w \in typed}

YearWorks ==
    LET dated == {BaseWork,
                  With(Without(BaseWork, "published-print"), "published-online", DateOf(2014)),
                  With(BaseWork, "published-online", DateOf(2014)),
                  With(BaseWork, "published-print", "date-parts" :> <<<<>>>>),
                  Without(BaseWork, "published-print")}
    IN  {With(w, "author", <<a>>) : w \in dated, a \in FirstAuthors}
            \cup {Without(w, "author") : w \in dated}

AuthorWorks == {With(BaseWork, "author", as) : as \in SeqsUpTo(AuthorPool, MaxAuthors)}

(* authors at the edges of the lookup condition: a given name of exactly three
   characters, one of four with periods, and no given name, each with an ORCID *)
LookupWorks ==
    {With(BaseWork, "author", <<a>>) : a \in {aThree, aFour, aSolo, aGivenOnly}}

refFull == ("key" :> "ref1") @@ ("DOI" :> "10.2/y") @@ ("article-title" :> "Backprop")
               @@ ("author" :> "Rumelhart") @@ ("year" :> "1986")
               @@ ("journal-title" :> "Nature") @@ ("volume" :> "323")
               @@ ("first-page" :> "533")
refBook == ("key" :> "ref2") @@ ("volume-title" :> "Perceptrons")

ReferenceWorks ==
    {With(BaseWork, "reference", rs) : rs \in SeqsUpTo({refFull, refBook}, MaxRefs)}

Works == TypeVenueWorks \cup YearWorks \cup AuthorWorks \cup LookupWorks
             \cup ReferenceWorks \cup SparseWorks \cup MessageWorks

(* the message of the work list that /works/ without a DOI answers with *)
WorkList == "message-type" :> "work-list"

(* what the GET of /works/{doi} ends in: an axios error, or a body with or
   without the message object; the registry holds records under "10.1/x" only *)
WorksErrors ==
    {[kind |-> "error", cause |-> c] :
        c \in {"Request failed with status code 404", "Network Error"}}

WorksOutcomes ==
    WorksErrors
      \cup {[kind |-> "ok", body |-> [status |-> "ok", message |-> w]] :
              w \in Works \cup {WorkList}}
      \cup {[kind |-> "ok", body |-> [status |-> "ok"]]}

WorksOutcomesFor(doi) ==
    IF doi = "10.1/x"
    THEN {o \in WorksOutcomes : o.kind = "ok" => (o.body = [status |-> "ok"] \/ o.body["message"] # WorkList)}
    ELSE IF doi = ""
    THEN WorksErrors \cup {[kind |-> "ok", body |-> [status |-> "ok", message |-> WorkList]]}
    ELSE WorksErrors

TitleLines == {"  title = {Deep Learning},\n",
               "  title = {{Deep Learning}},\n",
               "  title={The {DNA} story},\n",
               "  title\t={Deep Learning},\n",
               "  booktitle = {Proc. {NIPS}},\n  title = {Deep Learning},\n"}
AbstractLines == {"",
                  "  abstract = {We show it.},\n",
                  "  abstract = {We {show} it.},\n"}

ExportTexts ==
    {"@article{LeCun_2015,\n" \o t \o a \o "  year = {2015}\n}" :
        t \in TitleLines, a \in AbstractLines}
      \cup {" @article{LeCun_2015, title={Deep Learning}, abstract={We show it.}, year={2015} }\n",
            "\n  abstract = {Only}\n",
            ""}

(* what the GET of the x-bibtex transform ends in: an axios error, a text
   body, or a body that is no string *)
ExportOutcomes ==
    {[kind |-> "error"], [kind |-> "notstring"]}
      \cup {[kind |-> "ok", body |-> b] : b \in ExportTexts}

personNamed(g, f) ==
    [name |-> ("given-names" :> [value |-> g]) @@ ("family-name" :> [value |-> f])]

(* what the GET of /{orcid}/person ends in *)
OrcidOutcomes ==
    {[kind |-> "error"],
     [kind |-> "ok", body |-> [path |-> "/person"]],
     [kind |-> "ok", body |-> [name |-> ("family-name" :> [value |-> "LeCun"])]],
     [kind |-> "ok", body |-> personNamed("Jean Paul", "Sartre")]}

NoReply == [kind |-> "none"]
noReplies(authors) == [i \in 1..Len(authors) |-> NoReply]

(***************************************************************************)
(* The handler of CallToolRequestSchema, one call of it.                   *)
(***************************************************************************)
mcpError(code, message) == [kind |-> "error", code |-> code, message |-> message]
toolResult(obj) == [kind |-> "ok", content |-> obj]

(* `${doi}` in a template literal: args.doi as string *)
doiText(a) == IF "doi" \in DOMAIN a THEN a["doi"] ELSE "undefined"

worksUrl(doi) == "https://api.crossref.org/works/" \o doi
exportUrl(doi) == worksUrl(doi) \o "/transform/application/x-bibtex"

netCall(kind, url, author, round) ==
    [kind |-> kind, url |-> url, author |-> author, round |-> round]

(* the message of the TypeError a read of undefined.field raises *)
readOfUndefined(field) ==
    "Cannot read properties of undefined (reading '" \o field \o "')"

(* a catch block that drops the caught error's message *)
failureWithoutCause(what, doi, cause) ==
    mcpError("InternalError", "Failed to fetch " \o what \o " for DOI " \o doi)

(* the catch block of either tool *)
failure(what, doi, cause) ==
    mcpError("InternalError",
             "Failed to fetch " \o what \o " for DOI " \o doi \o ": " \o cause)

(* data.author?.map(author => formatAuthorEnhanced(author)): the promises, a
   request in flight for each author whose lookup is issued *)
startLookups(authors) ==
    [i \in 1..Len(authors) |->
        [st |-> IF lookupIssued(authors[i]) THEN "inflight" ELSE "none",
         name |-> ""]]

(* the requests issued one after the other: only the first is out when the
   handler reaches its await *)
lookupCallsFirstOnly(authors, round) ==
    LET issued(c) == lookupIssued(authors[c.author])
        calls == SelectSeq([i \in 1..Len(authors) |->
                              netCall("orcid", orcidUrl(GetStr(authors[i], "ORCID")), i, round)],
                           issued)
    IN  SubSeq(calls, 1, Min({1, Len(calls)}))

lookupCalls(authors, round) ==
    LET issued(c) == lookupIssued(authors[c.author])
    IN  SelectSeq([i \in 1..Len(authors) |->
                      netCall("orcid", orcidUrl(GetStr(authors[i], "ORCID")), i, round)],
                  issued)

(* results pushed in completion order: the value lands in the first slot
   still open *)
settleInCompletionOrder(look, i, name) ==
    LET first == Min({j \in 1..Len(look) : look[j].st = "inflight"})
    IN  [look EXCEPT ![first] = [st |-> "done", name |-> name]]

(* the promise of author i settles with what fetchORCIDName returned *)
settle(look, i, name) == [look EXCEPT ![i] = [st |-> "done", name |-> name]]

allSettled(look) == \A i \in 1..Len(look) : look[i].st # "inflight"

(* what Promise.all resolves to *)
resolvedAuthors(authors, look) ==
    [i \in 1..Len(authors) |-> formatAuthorEnhanced(authors[i], look[i].name)]

plainAuthors(d) == [i \in 1..Len(authorsOf(d)) |-> plainAuthor(authorsOf(d)[i])]

(* !args || !args.doi *)
missingDoi(a) == a = Undefined \/ GetStr(a, "doi") = ""

Init ==
    /\ rev \in Revs
    /\ tool \in Tools
    /\ args \in ArgSets
    /\ pc = "idle"
    /\ net = <<>>
    /\ response = NoReply
    /\ data = Undefined
    /\ exportBody = NoReply
    /\ bibtex = ""
    /\ genLook = <<>>
    /\ metaLook = <<>>
    /\ genReply = <<>>
    /\ metaReply = <<>>
    /\ lastSettled = 0
    /\ result = NoReply

(* the handler up to its first await: the tool name, the doi check of the two
   later revisions, and the GET of the record *)
CallTool ==
    /\ pc = "idle"
    /\ IF tool \notin {"fetch_doi_metadata", "fetch_references"}
       THEN /\ result' = mcpError("MethodNotFound", "Unknown tool: " \o tool)
            /\ pc' = "done"
            /\ net' = net
       ELSE IF rev # "index_ts" /\ missingDoi(args)
       THEN /\ result' = mcpError("InvalidParams", "Missing required parameter: doi")
            /\ pc' = "done"
            /\ net' = net
       ELSE IF rev = "index_ts" /\ args = Undefined
       THEN /\ result' = mcpError("TypeError", readOfUndefined("doi"))
            /\ pc' = "done"
            /\ net' = net
       ELSE /\ net' = Append(net, netCall("works", worksUrl(doiText(args)), 0, ""))
            /\ pc' = "await_works"
            /\ result' = result
    /\ UNCHANGED <<rev, tool, args, response, data, exportBody, bibtex,
                   genLook, metaLook, genReply, metaReply, lastSettled>>

(* the GET of the record settles; the handler runs to its next await or to
   its end *)
WorksResponds(o) ==
    LET doi == doiText(args)
        what == IF tool = "fetch_references" THEN "references" ELSE "metadata"
        d == IF o.kind = "ok" /\ "message" \in DOMAIN o.body
             THEN o.body["message"] ELSE Undefined
    IN
    /\ pc = "await_works"
    /\ o \in WorksOutcomesFor(doi)
    /\ response' = o
    /\ IF o.kind = "error"
       THEN /\ result' = failure(what, doi, o.cause)
            /\ pc' = "done"
            /\ UNCHANGED <<data, net, bibtex>>
       ELSE IF tool = "fetch_references"
       THEN /\ data' = d
            /\ result' = IF d = Undefined
                         THEN failure(what, doi, readOfUndefined("reference"))
                         ELSE toolResult(referencesOf(doi, d))
            /\ pc' = "done"
            /\ UNCHANGED <<net, bibtex>>
       ELSE IF rev = "index_ts"
       THEN /\ data' = d
            /\ bibtex' = IF d = Undefined THEN bibtex ELSE generateBibTeX(d)
            /\ result' = IF d = Undefined
                         THEN failure(what, doi, readOfUndefined("DOI"))
                         ELSE toolResult(metadataWithRaw(d, plainAuthors(d),
                                                         generateBibTeX(d)))
            /\ pc' = "done"
            /\ net' = net
       ELSE /\ data' = d
            /\ net' = Append(net, netCall("bibtex", exportUrl(doi), 0, ""))
            /\ pc' = "await_bibtex"
            /\ UNCHANGED <<result, bibtex>>
    /\ UNCHANGED <<rev, tool, args, exportBody, genLook, metaLook,
                   genReply, metaReply, lastSettled>>

(* the GET of the export settles: fetchBibTeX returns, then the fallback and
   the metadata of bibtex_rev, or the author lookups of orcid_rev *)
ExportResponds(o) ==
    LET doi == doiText(args)
        b == fetchBibTeX(o)
        authors == authorsOf(data)
        look == startLookups(authors)
    IN
    /\ pc = "await_bibtex"
    /\ exportBody' = o
    /\ IF data = Undefined
       THEN /\ result' = failure("metadata", doi,
                            readOfUndefined(IF b = "" THEN "type"
                                            ELSE IF rev = "orcid_rev" THEN "author"
                                            ELSE "DOI"))
            /\ pc' = "done"
            /\ UNCHANGED <<net, bibtex, genLook, metaLook, genReply, metaReply>>
       ELSE IF rev = "bibtex_rev"
       THEN LET bib == IF b # "" THEN b ELSE generateBibTeXFromMetadata(data)
            IN  /\ bibtex' = bib
                /\ result' = toolResult(metadataOf(data, plainAuthors(data), bib))
                /\ pc' = "done"
                /\ UNCHANGED <<net, genLook, metaLook, genReply, metaReply>>
       ELSE IF b # ""
       THEN /\ bibtex' = b
            /\ metaLook' = look
            /\ metaReply' = noReplies(authors)
            /\ net' = net \o lookupCalls(authors, "meta")
            /\ IF allSettled(look)
               THEN /\ result' = toolResult(metadataOf(data,
                                     resolvedAuthors(authors, look), b))
                    /\ pc' = "done"
               ELSE /\ pc' = "await_meta"
                    /\ result' = result
            /\ UNCHANGED <<genLook, genReply>>
       ELSE /\ genLook' = look
            /\ genReply' = noReplies(authors)
            /\ net' = net \o lookupCalls(authors, "gen")
            /\ IF allSettled(look)
               THEN LET bib == generateBibTeXFromMetadataEnhanced(data,
                                   resolvedAuthors(authors, look))
                    IN  /\ bibtex' = bib
                        /\ metaLook' = look
                        /\ metaReply' = noReplies(authors)
                        /\ result' = toolResult(metadataOf(data,
                                         resolvedAuthors(authors, look), bib))
                        /\ pc' = "done"
               ELSE /\ pc' = "await_gen"
                    /\ UNCHANGED <<bibtex, metaLook, metaReply, result>>
    /\ UNCHANGED <<rev, tool, args, response, data, lastSettled>>

(* a lookup of generateBibTeXFromMetadataEnhanced settles; with the last one
   the entry is generated and the handler maps the authors again *)
GenLookupResponds(i, o) ==
    LET authors == authorsOf(data)
        look == settle(genLook, i, fetchORCIDName(o))
    IN
    /\ pc = "await_gen"
    /\ i \in 1..Len(genLook)
    /\ genLook[i].st = "inflight"
    /\ genLook' = look
    /\ genReply' = [genReply EXCEPT ![i] = o]
    /\ IF allSettled(look)
       THEN /\ bibtex' = generateBibTeXFromMetadataEnhanced(data,
                             resolvedAuthors(authors, look))
            /\ metaLook' = startLookups(authors)
            /\ metaReply' = noReplies(authors)
            /\ net' = net \o lookupCalls(authors, "meta")
            /\ pc' = "await_meta"
            /\ lastSettled' = 0
       ELSE /\ lastSettled' = i
            /\ UNCHANGED <<bibtex, metaLook, metaReply, net, pc>>
    /\ UNCHANGED <<rev, tool, args, response, data, exportBody, result>>

(* a lookup of the handler's own Promise.all settles; with the last one the
   metadata is composed and returned *)
MetaLookupResponds(i, o) ==
    LET authors == authorsOf(data)
        look == settle(metaLook, i, fetchORCIDName(o))
    IN
    /\ pc = "await_meta"
    /\ i \in 1..Len(metaLook)
    /\ metaLook[i].st = "inflight"
    /\ metaLook' = look
    /\ metaReply' = [metaReply EXCEPT ![i] = o]
    /\ lastSettled' = i
    /\ IF allSettled(look)
       THEN /\ result' = toolResult(metadataOf(data,
                             resolvedAuthors(authors, look), bibtex))
            /\ pc' = "done"
       ELSE UNCHANGED <<result, pc>>
    /\ UNCHANGED <<rev, tool, args, response, data, exportBody, bibtex,
                   genLook, genReply, net>>

Next ==
    \/ CallTool
    \/ \E o \in WorksOutcomes : WorksResponds(o)
    \/ \E o \in ExportOutcomes : ExportResponds(o)
    \/ \E i \in 1..MaxAuthors, o \in OrcidOutcomes : GenLookupResponds(i, o)
    \/ \E i \in 1..MaxAuthors, o \in OrcidOutcomes : MetaLookupResponds(i, o)

Spec == Init /\ [][Next]_vars

(***************************************************************************)
(* Reading a BibTeX text and a response, for the properties below.         *)
(***************************************************************************)
Contains(text, sub) ==
    LET cs == Chars(text)
        ls == Chars(sub)
    IN  \E p \in 1..Len(cs) : MatchLit(cs, p, ls)

(* the positions where a field called name starts: the name at a word
   boundary, followed by = *)
FieldStarts(cs, name) ==
    LET ls == Chars(name)
    IN  {p \in 1..Len(cs) :
            /\ MatchLit(cs, p, ls)
            /\ CharAt(cs, p - 1) \notin AlnumChars
            /\ CharAt(cs, SkipSpace(cs, p + Len(ls))) = "="}

HasField(text, name) == FieldStarts(Chars(text), name) # {}

(* the value of the field starting at p: what lies between its opening brace
   and the closing brace that a comma, a line end or the text's end follows *)
ValueAt(cs, p, name) ==
    LET open == SkipSpace(cs, SkipSpace(cs, p + Len(name)) + 1)
        ends == {q \in (open + 1)..Len(cs) :
                    cs[q] = "}" /\ CharAt(cs, q + 1) \in {",", "\n", "\r", ""}}
    IN  IF CharAt(cs, open) # "{" \/ ends = {} THEN <<>>
        ELSE SubSeq(cs, open + 1, Min(ends) - 1)

(* the values of all fields called name, as texts *)
FieldValues(text, name) ==
    LET cs == Chars(text)
    IN  {Str(ValueAt(cs, p, name)) : p \in FieldStarts(cs, name)}

(* `@type{key,` *)
EntryTypeIn(text) ==
    LET cs == Chars(text)
        open == Min({q \in 1..Len(cs) : cs[q] = "{"})
    IN  Str(SubSeq(cs, 2, open - 1))

EntryKeyIn(text) ==
    LET cs == Chars(text)
        open == Min({q \in 1..Len(cs) : cs[q] = "{"})
        comma == Min({q \in 1..Len(cs) : cs[q] = ","})
    IN  Str(SubSeq(cs, open + 1, comma - 1))

(* a field value that is one braced group: {...} with no second pair around it *)
WrappedOnce(value) ==
    LET v == Chars(value)
    IN  /\ Len(v) >= 2
        /\ v[1] = "{"
        /\ v[Len(v)] = "}"
        /\ ~(CharAt(v, 2) = "{" /\ CharAt(v, Len(v) - 1) = "}")
        /\ \A q \in 2..(Len(v) - 1) : v[q] = "}" =>
               \E o \in 2..(q - 1) : v[o] = "{"

IsMetadataCall == tool = "fetch_doi_metadata"
IsReferencesCall == tool = "fetch_references"
Returned == pc = "done" /\ result.kind = "ok"
Threw == pc = "done" /\ result.kind = "error"

(* the keys of the metadata object; doi is there when the record has a DOI,
   raw_data in src/src/index.ts only *)
MetadataFields == {"title", "authors", "journal", "year", "volume", "issue", "pages",
                   "publisher", "abstract", "url", "type", "published_date",
                   "references_count", "is_referenced_by_count", "bibtex"}

FullMetadata(obj) ==
    /\ MetadataFields \subseteq DOMAIN obj
    /\ DOMAIN obj \subseteq MetadataFields \cup {"doi", "raw_data"}
    /\ "doi" \in DOMAIN obj <=> "DOI" \in DOMAIN data
    /\ obj.title # ""
    /\ obj.type # ""
    /\ obj.bibtex # ""

(* the export request ended without a usable text *)
ExportFailed == exportBody.kind \in {"error", "notstring"}

(* the returned bibtex came from the local formatter *)
LocallyGenerated ==
    /\ IsMetadataCall
    /\ Returned
    /\ rev = "index_ts" \/ fetchBibTeX(exportBody) = ""

(* the same for a record that has no message field of its own, which every
   formatter formats as it is (see C8 for the others) *)
LocallyGeneratedOfRecord == LocallyGenerated /\ "message" \notin DOMAIN data

(* the names the authors resolve to, given what each lookup of a round ended in *)
NamesFrom(authors, replies) ==
    [i \in 1..Len(authors) |->
        formatAuthorEnhanced(authors[i], fetchORCIDName(replies[i]))]

(***************************************************************************)
(* C1.  For fetch_doi_metadata and fetch_references, a call whose doi      *)
(* argument is missing or empty issues no network request at any point and *)
(* ends in the InvalidParams error.  Fails in src/src/index.ts, which has  *)
(* no check of args.doi.                                                   *)
(***************************************************************************)
C1_MissingDoiIsValidationError ==
    (tool \in {"fetch_doi_metadata", "fetch_references"}
        /\ (args = Undefined \/ "doi" \notin DOMAIN args \/ args["doi"] = ""))
    => /\ net = <<>>
       /\ pc = "done" => (result.kind = "error" /\ result.code = "InvalidParams")

(***************************************************************************)
(* C2.  fetch_doi_metadata ends in exactly one of two outcomes, the full   *)
(* metadata object or an error; when the GET of the record fails the       *)
(* outcome is an error whose message carries the DOI and the cause, and no *)
(* metadata object is returned.                                            *)
(***************************************************************************)
C2_PrimaryFailureIsError ==
    IsMetadataCall =>
        /\ pc # "done" => result = NoReply
        /\ pc = "done" => result.kind \in {"ok", "error"}
        /\ Returned => /\ response.kind = "ok"
                       /\ DOMAIN result = {"kind", "content"}
                       /\ FullMetadata(result.content)
        /\ (pc = "done" /\ response.kind = "error") =>
               /\ result.kind = "error"
               /\ DOMAIN result = {"kind", "code", "message"}
               /\ Contains(result.message, "DOI " \o doiText(args) \o ": ")
               /\ Contains(result.message, response.cause)

C2_Witness ==
    /\ IsMetadataCall
    /\ Threw
    /\ response.kind = "error"
    /\ response.cause = "Request failed with status code 404"
    /\ rev = "orcid_rev"

(***************************************************************************)
(* C3.  Once the GET of the record has delivered a record, the call        *)
(* returns the full metadata object whatever the export request and the    *)
(* ORCID lookups end in; no error is surfaced on the way, and when the     *)
(* export request fails the bibtex is the locally generated entry.         *)
(***************************************************************************)
C3_OptionalFailuresDegrade ==
    (IsMetadataCall /\ response.kind = "ok" /\ data # Undefined) =>
        /\ pc # "done" => result = NoReply
        /\ pc = "done" =>
               /\ result.kind = "ok"
               /\ FullMetadata(result.content)
               /\ ExportFailed =>
                      result.content.bibtex =
                          IF rev = "orcid_rev"
                          THEN generateBibTeXFromMetadataEnhanced(data,
                                   NamesFrom(authorsOf(data), genReply))
                          ELSE generateBibTeXFromMetadata(data)

C3_Witness ==
    /\ IsMetadataCall
    /\ rev = "orcid_rev"
    /\ Returned
    /\ exportBody.kind = "error"
    /\ \E i \in 1..Len(metaReply) : metaReply[i].kind = "error"
    /\ \E i \in 1..Len(genReply) :
           genReply[i].kind = "ok" /\ "name" \notin DOMAIN genReply[i].body

(***************************************************************************)
(* C4.  The i-th author of the metadata is the resolution of the i-th      *)
(* author of the record with what that author's own lookup ended in, and   *)
(* so is the i-th name of the generated author field, whichever lookups    *)
(* settle first and whichever fail.                                        *)
(***************************************************************************)
C4_AuthorOrderPreserved ==
    (IsMetadataCall /\ rev = "orcid_rev" /\ Returned) =>
        LET authors == authorsOf(data)
            out == result.content.authors
            generated == NamesFrom(authors, genReply)
        IN  /\ Len(out) = Len(authors)
            /\ \A i \in 1..Len(authors) :
                   out[i] = formatAuthorEnhanced(authors[i],
                                                 fetchORCIDName(metaReply[i]))
            /\ (ExportFailed /\ Len(authors) > 0) =>
                   FieldValues(result.content.bibtex, "author") =
                       {Join([i \in 1..Len(authors) |-> generated[i].full_name],
                             " and ")}

C4_Witness ==
    /\ IsMetadataCall
    /\ rev = "orcid_rev"
    /\ Returned
    /\ ExportFailed
    /\ Len(authorsOf(data)) = 2
    /\ \A i \in 1..2 : lookupIssued(authorsOf(data)[i])
    /\ lastSettled = 1
    /\ metaReply[1].kind = "error"
    /\ result.content.authors[2].name_source = "orcid"
    /\ result.content.authors[1].name_source = "crossref"

(***************************************************************************)
(* C5.  The bibtex returned from a fetched export holds no abstract field, *)
(* also when the abstract's value holds one level of nested braces.  Fails *)
(* in fetchBibTeX: the pattern's value part stops at the first closing     *)
(* brace and must then reach the end of the line.                          *)
(***************************************************************************)
C5_NoAbstractField ==
    (IsMetadataCall /\ Returned /\ ~LocallyGenerated) =>
        ~HasField(result.content.bibtex, "abstract")

(***************************************************************************)
(* C6.  Every returned bibtex has its title value in exactly one extra     *)
(* pair of braces; an export whose title is already double-braced keeps    *)
(* its title field, and the title replacement applied twice gives what it  *)
(* gives applied once.  Fails in fetchBibTeX: the group never ends in a    *)
(* closing brace, so the already-wrapped test never holds.                 *)
(***************************************************************************)
C6_TitleWrappedOnce ==
    (IsMetadataCall /\ Returned) =>
        /\ \A v \in FieldValues(result.content.bibtex, "title") : WrappedOnce(v)
        /\ ~LocallyGenerated =>
               LET body == Chars(exportBody.body)
               IN  /\ (\A v \in FieldValues(exportBody.body, "title") : WrappedOnce(v))
                       => FieldValues(result.content.bibtex, "title")
                              = FieldValues(exportBody.body, "title")
                   /\ wrapTitle(wrapTitle(body, 1), 1) = wrapTitle(body, 1)

(***************************************************************************)
(* C7.  fetch_references: a record without a reference field gives count   *)
(* 0, an empty list and the text "No references available for this DOI";   *)
(* an empty reference list gives count 0 and no such text; n references    *)
(* give count n and the n stubs in the record's order.  As stated, the     *)
(* text is in a field named note; in the code the field is named message.  *)
(***************************************************************************)
ReferencesCases(noteField) ==
    (IsReferencesCall /\ Returned) =>
        LET out == result.content
        IN  IF "reference" \notin DOMAIN data
            THEN /\ out.references_count = 0
                 /\ out.references = <<>>
                 /\ noteField \in DOMAIN out
                 /\ out[noteField] = "No references available for this DOI"
            ELSE LET refs == data["reference"]
                 IN  /\ out.references_count = Len(refs)
                     /\ Len(out.references) = Len(refs)
                     /\ DOMAIN out = {"doi", "references_count", "references"}
                     /\ \A i \in 1..Len(refs) :
                            /\ out.references[i].raw = refs[i]
                            /\ out.references[i].key = OrNull(refs[i], "key")
                            /\ out.references[i].pages = OrNull(refs[i], "first-page")

(* C7 as stated: the text of the first case is in a field named note *)
C7_ReferencesCasesNote == ReferencesCases("note")

(* C7 as amended: the text of the first case is in a field named message *)
C7_ReferencesCasesMessage == ReferencesCases("message")

C7_Witness ==
    /\ IsReferencesCall
    /\ Returned
    /\ "reference" \in DOMAIN data
    /\ data["reference"] = <<>>
    /\ result.content.references_count = 0
    /\ DOMAIN result.content = {"doi", "references_count", "references"}

(***************************************************************************)
(* C8.  The citation key of a locally generated entry is non-empty, holds  *)
(* only characters of [A-Za-z0-9], and is the first author's family name   *)
(* (Unknown without one) followed by the year (print, else online, else    *)
(* the current year) with every other character removed.  Fails in         *)
(* generateBibTeX of src/src/index.ts on a record with a message field of   *)
(* its own: the key is built from that object, not from the record.         *)
(***************************************************************************)
C8_CitationKey ==
    LocallyGenerated =>
        LET key == Chars(EntryKeyIn(result.content.bibtex))
            authors == IF "author" \in DOMAIN data THEN data["author"] ELSE <<>>
            family == IF Len(authors) > 0 /\ "family" \in DOMAIN authors[1]
                      THEN authors[1]["family"] ELSE "Unknown"
            year == IF DatePartsYear(data, "published-print") > 0
                    THEN DatePartsYear(data, "published-print")
                    ELSE IF DatePartsYear(data, "published-online") > 0
                    THEN DatePartsYear(data, "published-online")
                    ELSE CurrentYear
            expected == Chars(family \o ToString(year))
            kept == {p \in 1..Len(expected) : expected[p] \in AlnumChars}
        IN  /\ Len(key) > 0
            /\ \A p \in 1..Len(key) : key[p] \in AlnumChars
            /\ Len(key) = Cardinality(kept)
            /\ \A p \in kept :
                   key[Cardinality({q \in kept : q <= p})] = expected[p]

C8_Witness ==
    /\ LocallyGenerated
    /\ Len(authorsOf(data)) = 1
    /\ authorsOf(data)[1] = aONeil
    /\ recordYear(data) = 0
    /\ EntryKeyIn(result.content.bibtex) = "ONeilJr2026"

(***************************************************************************)
(* C9.  The entry type of a locally generated entry follows the table:     *)
(* book, book-chapter -> incollection, proceedings-article ->              *)
(* inproceedings, report -> techreport, thesis and dissertation ->         *)
(* phdthesis, anything else or nothing -> article.  Fails in               *)
(* generateBibTeX of src/src/index.ts, whose table stops after             *)
(* proceedings-article; stated for the records that are formatted as they   *)
(* are, where this is the only cause.                                       *)
(***************************************************************************)
C9_EntryTypeTable ==
    LocallyGeneratedOfRecord =>
        LET type == IF "type" \in DOMAIN data THEN data["type"] ELSE ""
        IN  EntryTypeIn(result.content.bibtex) =
                CASE type = "book" -> "book"
                  [] type = "book-chapter" -> "incollection"
                  [] type = "proceedings-article" -> "inproceedings"
                  [] type = "report" -> "techreport"
                  [] type \in {"thesis", "dissertation"} -> "phdthesis"
                  [] OTHER -> "article"

(***************************************************************************)
(* C10.  In a locally generated entry a non-empty venue is a journal field *)
(* when the entry type is article, a booktitle field when it is            *)
(* incollection or inproceedings, and no field at all for any other entry  *)
(* type.  Fails in generateBibTeX of src/src/index.ts, which writes        *)
(* booktitle for every entry type but article; stated for the records that *)
(* are formatted as they are.                                               *)
(***************************************************************************)
C10_VenueFieldByEntryType ==
    (LocallyGeneratedOfRecord /\ FirstOf(data, "container-title") # "") =>
        LET text == result.content.bibtex
            venue == {FirstOf(data, "container-title")}
            entryType == EntryTypeIn(text)
        IN  /\ FieldValues(text, "journal") =
                   IF entryType = "article" THEN venue ELSE {}
            /\ FieldValues(text, "booktitle") =
                   IF entryType \in {"incollection", "inproceedings"} THEN venue ELSE {}

(***************************************************************************)
(* Reading the request log and the lookup replies.                         *)
(***************************************************************************)
(* the ORCID requests issued for author i, as positions of the log *)
OrcidCalls(i) == {k \in DOMAIN net : net[k].kind = "orcid" /\ net[k].author = i}
OrcidCallsIn(i, round) == {k \in OrcidCalls(i) : net[k].round = round}

(* the reply carries a name with both of its parts *)
WellFormedName(reply) ==
    /\ reply.kind = "ok"
    /\ "name" \in DOMAIN reply.body
    /\ {"given-names", "family-name"} \subseteq DOMAIN reply.body["name"]

(* given + " " + family, else family, else name, else "Unknown Author" *)
BaselineName(author) ==
    IF "given" \in DOMAIN author /\ "family" \in DOMAIN author
    THEN author["given"] \o " " \o author["family"]
    ELSE IF "family" \in DOMAIN author THEN author["family"]
    ELSE IF "name" \in DOMAIN author THEN author["name"]
    ELSE "Unknown Author"

(* the response of the revision with ORCID lookups *)
ResolvedResponse == rev = "orcid_rev" /\ IsMetadataCall /\ Returned

(***************************************************************************)
(* C11.  Every author of a returned metadata object has a non-empty        *)
(* full_name, and its name_source is "orcid" (the identity registry)        *)
(* exactly when a lookup was issued for it and answered with a well-formed  *)
(* name; otherwise it is "fallback" exactly when the baseline name is       *)
(* "Unknown Author", and "crossref" (the primary registry) otherwise, with  *)
(* full_name equal to the baseline name.                                    *)
(***************************************************************************)
C11_NameSourceRule ==
    ResolvedResponse =>
        LET raw == authorsOf(data)
            out == result.content.authors
        IN  /\ Len(out) = Len(raw)
            /\ \A i \in 1..Len(raw) :
                  LET looked == OrcidCallsIn(i, "meta") # {} /\ WellFormedName(metaReply[i])
                  IN  /\ out[i].full_name # ""
                      /\ out[i].name_source \in {"orcid", "crossref", "fallback"}
                      /\ out[i].name_source = "orcid" <=> looked
                      /\ ~looked =>
                            /\ out[i].full_name = BaselineName(raw[i])
                            /\ out[i].name_source = "fallback"
                                  <=> BaselineName(raw[i]) = "Unknown Author"

(* C11: one response with a name taken from ORCID next to one whose lookup
   failed and kept the Crossref name *)
C11_Witness ==
    /\ ResolvedResponse
    /\ \E i, j \in 1..Len(result.content.authors) :
          /\ result.content.authors[i].name_source = "orcid"
          /\ result.content.authors[i].full_name = "Jean Paul Sartre"
          /\ result.content.authors[j].name_source = "crossref"
          /\ OrcidCallsIn(j, "meta") # {}

(***************************************************************************)
(* C12.  An ORCID request is issued for an author if and only if the       *)
(* author carries an ORCID and its given name has at most 3 characters and  *)
(* contains a period: every request in the log is for such an author, and   *)
(* once the response is returned every such author has had its request.     *)
(***************************************************************************)
Abbreviated(author) ==
    /\ "ORCID" \in DOMAIN author
    /\ "given" \in DOMAIN author
    /\ Len(author["given"]) <= 3
    /\ \E p \in 1..Len(author["given"]) : SubSeq(author["given"], p, p) = "."

C12_LookupIffAbbreviated ==
    /\ \A k \in DOMAIN net : net[k].kind = "orcid" =>
          /\ rev = "orcid_rev"
          /\ net[k].author \in 1..Len(authorsOf(data))
          /\ Abbreviated(authorsOf(data)[net[k].author])
          /\ net[k].url = "https://pub.orcid.org/v3.0/"
                             \o cleanORCID(authorsOf(data)[net[k].author]["ORCID"])
                             \o "/person"
    /\ ResolvedResponse =>
          \A i \in 1..Len(authorsOf(data)) :
              Abbreviated(authorsOf(data)[i]) => OrcidCallsIn(i, "meta") # {}

(* C12: a response for two authors with an ORCID each, one looked up and one,
   whose given name has no period, not *)
C12_Witness ==
    /\ ResolvedResponse
    /\ \E i, j \in 1..Len(authorsOf(data)) :
          /\ OrcidCalls(i) # {}
          /\ OrcidCalls(j) = {}
          /\ "ORCID" \in DOMAIN authorsOf(data)[j]

(* C12: the edges of the condition, a given name of three characters looked up *)
C12_WitnessThree ==
    /\ ResolvedResponse
    /\ authorsOf(data) = <<aThree>>
    /\ OrcidCalls(1) # {}

(***************************************************************************)
(* The order of the requests of one fetch_doi_metadata call.               *)
(***************************************************************************)
ExportInFlight == pc = "await_bibtex"

(* the record was fetched successfully before any request for the export or
   for an ORCID person was issued *)
PrimaryFirst ==
    \A k \in DOMAIN net : net[k].kind \in {"bibtex", "orcid"} =>
        /\ response.kind = "ok"
        /\ \E j \in 1..(k - 1) : net[j].kind = "works"

(* the response is composed when the export and every lookup issued have
   their outcome *)
ComposedLast ==
    IsMetadataCall /\ Returned =>
        \A k \in DOMAIN net :
            /\ net[k].kind = "bibtex" => exportBody.kind # "none"
            /\ net[k].kind = "orcid" /\ net[k].round = "gen" =>
                  genLook[net[k].author].st = "done" /\ genReply[net[k].author].kind # "none"
            /\ net[k].kind = "orcid" /\ net[k].round = "meta" =>
                  metaLook[net[k].author].st = "done" /\ metaReply[net[k].author].kind # "none"

(* while the export is in flight the lookups of the authors are in flight too *)
LookupsWithExport ==
    rev = "orcid_rev" /\ ExportInFlight /\ data # Undefined =>
        \A i \in 1..Len(authorsOf(data)) :
            Abbreviated(authorsOf(data)[i]) => OrcidCalls(i) # {}

(* no lookup is issued before the export has its outcome *)
ExportBeforeLookups ==
    /\ ExportInFlight => \A k \in DOMAIN net : net[k].kind # "orcid"
    /\ \A k \in DOMAIN net : net[k].kind = "orcid" =>
          /\ exportBody.kind # "none"
          /\ \E j \in 1..(k - 1) : net[j].kind = "bibtex"

(* the lookups of one round are issued together: while the handler awaits a
   round, the request of every abbreviated author is out *)
RoundTogether ==
    /\ pc = "await_gen" =>
          \A i \in 1..Len(authorsOf(data)) :
              Abbreviated(authorsOf(data)[i]) => OrcidCallsIn(i, "gen") # {}
    /\ pc = "await_meta" =>
          \A i \in 1..Len(authorsOf(data)) :
              Abbreviated(authorsOf(data)[i]) => OrcidCallsIn(i, "meta") # {}

(***************************************************************************)
(* C13, as stated.  The record is fetched before anything else is issued,  *)
(* after that the export and the authors' ORCID lookups are in flight       *)
(* concurrently, and the response is composed after all of them.  Fails:    *)
(* the handler awaits fetchBibTeX before it maps the authors.               *)
(***************************************************************************)
C13_ExportAndLookupsConcurrent == PrimaryFirst /\ LookupsWithExport /\ ComposedLast

(***************************************************************************)
(* C13, amended.  The record is fetched before anything else is issued,    *)
(* the export has its outcome before any ORCID lookup is issued, the        *)
(* lookups of the authors are then issued together and are in flight        *)
(* concurrently with one another, and the response is composed after the    *)
(* export and every lookup issued have completed.                           *)
(***************************************************************************)
C13_ExportThenLookups ==
    PrimaryFirst /\ ExportBeforeLookups /\ RoundTogether /\ ComposedLast

(* C13: the export has answered and the lookups of two authors are in flight
   at the same time *)
C13_Witness ==
    /\ rev = "orcid_rev"
    /\ pc = "await_meta"
    /\ exportBody.kind = "ok"
    /\ Len(metaLook) = 2
    /\ metaLook[1].st = "inflight"
    /\ metaLook[2].st = "inflight"
    /\ OrcidCallsIn(1, "meta") # {}
    /\ OrcidCallsIn(2, "meta") # {}

(***************************************************************************)
(* C14.  In a returned metadata object title and type are populated, and   *)
(* a field the record lacks is null and never the empty string: volume,     *)
(* issue, pages, publisher, url and year, the journal's full and            *)
(* abbreviated name, and an author's given and family name.  Fails: the     *)
(* journal names and the authors' name parts default to ''.                  *)
(***************************************************************************)
C14_MissingFieldsAreNull ==
    IsMetadataCall /\ Returned =>
        LET m == result.content
            raw == authorsOf(data)
            lacks(k) == k \notin DOMAIN data
        IN  /\ m.title # ""
            /\ m.type # ""
            /\ lacks("volume") => m.volume = Null
            /\ lacks("issue") => m.issue = Null
            /\ lacks("page") => m.pages = Null
            /\ lacks("publisher") => m.publisher = Null
            /\ lacks("URL") => m.url = Null
            /\ lacks("published-print") /\ lacks("published-online") => m.year = Null
            /\ lacks("container-title") => m.journal.full_name # ""
            /\ lacks("container-title") /\ lacks("short-container-title") =>
                  m.journal.abbreviated # ""
            /\ \A i \in 1..Len(raw) :
                  /\ "given" \notin DOMAIN raw[i] => m.authors[i].given # ""
                  /\ "family" \notin DOMAIN raw[i] => m.authors[i].family # ""

(***************************************************************************)
(* C14, amended.  Title and type are populated; volume, issue, pages,      *)
(* publisher, url and year are null when the record lacks them; the         *)
(* journal's full name is the empty string when the record has no           *)
(* container title, and its abbreviated name is the short container title,  *)
(* else the container title, else the empty string; an author whose name    *)
(* was taken from ORCID has the parts of that name as given and family      *)
(* name, and any other author has the record's given and family name, the   *)
(* empty string for one the record lacks.                                   *)
(***************************************************************************)
C14_MissingFieldsNullOrEmpty ==
    IsMetadataCall /\ Returned =>
        LET m == result.content
            raw == authorsOf(data)
            lacks(k) == k \notin DOMAIN data
            copied(k, v) == v = IF lacks(k) THEN Null ELSE Some(data[k])
            fromOrcid(i) == rev = "orcid_rev" /\ m.authors[i].name_source = "orcid"
            part(i, k) == IF k \in DOMAIN raw[i] THEN raw[i][k] ELSE ""
        IN  /\ m.title # ""
            /\ m.type # ""
            /\ copied("volume", m.volume)
            /\ copied("issue", m.issue)
            /\ copied("page", m.pages)
            /\ copied("publisher", m.publisher)
            /\ copied("URL", m.url)
            /\ lacks("published-print") /\ lacks("published-online") => m.year = Null
            /\ m.journal.full_name =
                  IF lacks("container-title") THEN "" ELSE data["container-title"][1]
            /\ m.journal.abbreviated =
                  IF ~lacks("short-container-title") THEN data["short-container-title"][1]
                  ELSE IF ~lacks("container-title") THEN data["container-title"][1]
                  ELSE ""
            /\ Len(m.authors) = Len(raw)
            /\ \A i \in 1..Len(raw) :
                  IF fromOrcid(i)
                  THEN m.authors[i].given \o " " \o m.authors[i].family
                           = m.authors[i].full_name
                  ELSE /\ m.authors[i].given = part(i, "given")
                       /\ m.authors[i].family = part(i, "family")

(* C14: the response for a record that has only its DOI and one author known
   by a single name *)
C14_Witness ==
    /\ IsMetadataCall
    /\ Returned
    /\ data = With(BareWork, "author", <<aGroup>>)
    /\ result.content.title = "Untitled"
    /\ result.content.type = "article"
    /\ result.content.volume = Null
    /\ result.content.journal.full_name = ""
    /\ result.content.authors[1].given = ""

(* C14: an author without a family name on the record whose name came from
   ORCID *)
C14_WitnessFromOrcid ==
    /\ ResolvedResponse
    /\ authorsOf(data) = <<aGivenOnly>>
    /\ result.content.authors[1].name_source = "orcid"
    /\ result.content.authors[1].family = "Sartre"

(***************************************************************************)
(* C15.  Within one fetch_doi_metadata call at most one ORCID request is   *)
(* issued for each author of the work, whether the export succeeded or the  *)
(* BibTeX was generated locally.  Fails: when the export fails the          *)
(* formatter looks every abbreviated author up, and the handler then looks  *)
(* the same authors up again.                                               *)
(***************************************************************************)
C15_AtMostOneLookupPerAuthor ==
    IsMetadataCall =>
        \A i \in 1..Len(authorsOf(data)) : Cardinality(OrcidCalls(i)) <= 1

(***************************************************************************)
(* C16.  In a response whose BibTeX was generated locally for a record     *)
(* with authors, the author field of the BibTeX is the full_name values of  *)
(* the response's authors list, in order, joined by " and ".  Fails: the    *)
(* two come from separate rounds of lookups, which may end differently;     *)
(* stated for the records that are formatted as they are.                   *)
(***************************************************************************)
C16_BibTeXAuthorsAreMetadataAuthors ==
    LocallyGeneratedOfRecord /\ Len(authorsOf(data)) > 0 =>
        LET out == result.content.authors
            names == [i \in 1..Len(out) |-> out[i].full_name]
        IN  FieldValues(result.content.bibtex, "author") = {Join(names, " and ")}

(***************************************************************************)
(* C17.  The post-processing of a fetched export changes the abstract and  *)
(* the title field only: every other field of the export, booktitle         *)
(* included, has the same value in the returned BibTeX, and the entry type  *)
(* and key are the same.  Fails: the title pattern is not anchored and      *)
(* matches the end of "booktitle" too.                                      *)
(***************************************************************************)
OtherExportFields == {"booktitle", "year"}

ExportReturned ==
    /\ IsMetadataCall
    /\ Returned
    /\ exportBody.kind = "ok"
    /\ fetchBibTeX(exportBody) # ""

C17_OnlyAbstractAndTitleChange ==
    ExportReturned =>
        /\ \A f \in OtherExportFields :
              FieldValues(result.content.bibtex, f) = FieldValues(exportBody.body, f)
        /\ HasField(exportBody.body, "title") =>
              /\ EntryTypeIn(result.content.bibtex) = EntryTypeIn(exportBody.body)
              /\ EntryKeyIn(result.content.bibtex) = EntryKeyIn(exportBody.body)

=============================================================================
